---- MODULE Spec2Model ----
(***************************************************************************)
(* Model of leak_detector::LeakAnalyzer (src/leak_analyzer_old.cc).        *)
(*                                                                         *)
(* The analyzer is a single-threaded reducer: every call of AddSample      *)
(* rotates the two stored ranked lists, computes the ranked deltas,        *)
(* and runs AnalyzeDeltas, which finds the first major drop, updates the   *)
(* suspicion histogram and rebuilds the list of suspected leaks.           *)
(*                                                                         *)
(* A ranked list is a sequence of records [value, count], descending by    *)
(* count.  A leak value (ValueType) is a natural number, ordered as such.  *)
(* The lists handed to AddSample hold each value at most once, as the      *)
(* lists built from the detector's per-value tables do.                    *)
(***************************************************************************)
EXTENDS Integers, Sequences, FiniteSets, TLC

\* ---------------------------------------------------------------- bounds
NumClasses == 3        \* leak values are 1..NumClasses
MaxCount == 2          \* counts of a sample are 0..MaxCount
MaxRankingSize == 3    \* ranking_size_ is drawn from 1..MaxRankingSize
MaxThreshold == 2      \* score_threshold_ is drawn from 1..MaxThreshold
MaxSamples == 3        \* AddSample is called at most this often

\* ------------------------------------------------------ program constants
kSuspicionScoreIncrease == 1

Classes == 1 .. NumClasses
Counts == 0 .. MaxCount
Entry == [value : Classes, count : Counts]

VARIABLES
  ranking_size_,         \* size_t, fixed at construction
  score_threshold_,      \* int, fixed at construction
  ranked_entries_,       \* the list of the latest AddSample call
  prev_ranked_entries_,  \* the list of the call before
  suspected_histogram_,  \* map value -> suspicion score
  suspected_leaks_,      \* vector of values reported as leaks
  ranked_deltas,         \* local of the latest AddSample call
  current_suspects,      \* local of the latest AnalyzeDeltas call
  histogram_before,      \* suspected_histogram_ on entry to the latest call
  streak,                \* per value: latest consecutive calls suspected in
  num_samples,           \* number of AddSample calls so far
  last_sample,           \* the argument of the latest AddSample call
  dumped                 \* what the latest Dump call reported

vars == <<ranking_size_, score_threshold_, ranked_entries_,
          prev_ranked_entries_, suspected_histogram_, suspected_leaks_,
          ranked_deltas, current_suspects, histogram_before, streak,
          num_samples, last_sample, dumped>>

\* ---------------------------------------------------------------- helpers
MinOf(S) == CHOOSE x \in S : \A y \in S : x <= y

Range(s) == {s[i] : i \in 1 .. Len(s)}

EmptyHistogram == [c \in {} |-> 0]

IsRanked(s) == \A i \in 1 .. Len(s) - 1 : s[i].count >= s[i + 1].count

DistinctValues(s) ==
  \A i, j \in 1 .. Len(s) : i # j => s[i].value # s[j].value

\* Entries of equal count stand in ascending order of value.
TiesAscending(s) ==
  \A i \in 1 .. Len(s) - 1 :
     s[i].count = s[i + 1].count => s[i].value < s[i + 1].value

\* The ranked lists a caller hands to AddSample: descending by count, each
\* value at most once, equal counts in the order of a caller that adds its
\* values in ascending order.
RankedLists ==
  {s \in UNION {[1 .. n -> Entry] : n \in 0 .. NumClasses} :
     IsRanked(s) /\ DistinctValues(s) /\ TiesAscending(s)}

\* --------------------------------------------------------- RankedList::Add
\* Insert keeping the list descending by count, after the entries of equal
\* count, and drop what exceeds the capacity.
RankedListAdd(list, cap, value, count) ==
  LET new == [value |-> value, count |-> count]
      k == Cardinality({i \in 1 .. Len(list) : list[i].count >= count})
      ins == SubSeq(list, 1, k) \o <<new>> \o SubSeq(list, k + 1, Len(list))
  IN IF Len(ins) > cap THEN SubSeq(ins, 1, cap) ELSE ins

\* Mutant of GetPreviousCountForValue: a value the previous list lacks is
\* reported as found, with a previous count of 0.
GetPreviousCountAlwaysFound(prev, value) ==
  LET hits == {i \in 1 .. Len(prev) : prev[i].value = value}
  IN IF hits = {}
       THEN [found |-> TRUE, count |-> 0]
       ELSE [found |-> TRUE, count |-> prev[MinOf(hits)].count]

\* ------------------------------------------------ GetPreviousCountForValue
\* Linear search: the count of the first entry of the previous list with
\* this value, and whether there is one.
GetPreviousCountForValue(prev, value) ==
  LET hits == {i \in 1 .. Len(prev) : prev[i].value = value}
  IN IF hits = {}
       THEN [found |-> FALSE, count |-> 0]
       ELSE [found |-> TRUE, count |-> prev[MinOf(hits)].count]

\* Mutant of CountDelta: the previous count is not subtracted.
CountDeltaNoPrevious(count, prev_count) == count

\* entry.count - prev_count: the subtraction is done on 32-bit unsigned
\* values and the result handed to RankedList::Add as a signed 32-bit
\* count.  Both counts are non-negative and below 2^31, their difference
\* lies strictly between -2^31 and 2^31, so the wrapped result is the
\* signed difference itself.
CountDelta(count, prev_count) == count - prev_count

\* Mutant of DeltaLoop: a value that the previous list lacks gets a delta
\* too, its count.
RECURSIVE DeltaLoopAll(_, _, _, _, _)
DeltaLoopAll(list, i, prev, cap, acc) ==
  IF i > Len(list) THEN acc
  ELSE LET r == GetPreviousCountForValue(prev, list[i].value)
       IN DeltaLoopAll(list, i + 1, prev, cap,
                       RankedListAdd(acc, cap, list[i].value,
                                     CountDelta(list[i].count, r.count)))

\* ------------------------------------------------------- AddSample, differ
RECURSIVE DeltaLoop(_, _, _, _, _)
DeltaLoop(list, i, prev, cap, acc) ==
  IF i > Len(list) THEN acc
  ELSE LET r == GetPreviousCountForValue(prev, list[i].value)
       IN DeltaLoop(list, i + 1, prev, cap,
                    IF r.found
                      THEN RankedListAdd(acc, cap, list[i].value,
                                         CountDelta(list[i].count, r.count))
                      ELSE acc)

\* Mutant of ComputeDeltas: the delta list is built with the capacity of
\* the submitted list instead of ranking_size_.
ComputeDeltasUncapped(list, prev, cap) ==
  DeltaLoop(list, 1, prev, Len(list), <<>>)

\* RankedList ranked_deltas(ranking_size_) and the loop that fills it.
ComputeDeltas(list, prev, cap) == DeltaLoop(list, 1, prev, cap, <<>>)

\* ------------------------------------------- AnalyzeDeltas, drop detection
\* Mutant of FindDrop: a drop to exactly half counts as a major drop.
RECURSIVE FindDropOrEqual(_, _)
FindDropOrEqual(deltas, i) ==
  IF i + 1 > Len(deltas) THEN 0
  ELSE IF deltas[i].count >= deltas[i + 1].count * 2 THEN i + 1
  ELSE FindDropOrEqual(deltas, i + 1)

\* Mutant of FindDrop: the two counts are compared as unsigned values, so a
\* negative count is a huge one.
AsUnsigned(n) == IF n < 0 THEN n + 1000000 ELSE n

RECURSIVE FindDropUnsigned(_, _)
FindDropUnsigned(deltas, i) ==
  IF i + 1 > Len(deltas) THEN 0
  ELSE IF AsUnsigned(deltas[i].count) > AsUnsigned(deltas[i + 1].count * 2)
    THEN i + 1
  ELSE FindDropUnsigned(deltas, i + 1)

\* The loop over adjacent entries: the index of the entry after the first
\* major drop, 0 when there is none.
RECURSIVE FindDrop(_, _)
FindDrop(deltas, i) ==
  IF i + 1 > Len(deltas) THEN 0
  ELSE IF deltas[i].count > deltas[i + 1].count * 2 THEN i + 1
  ELSE FindDrop(deltas, i + 1)

\* Mutant of DropPosition: the test of the first entry is missing.
DropPositionAnyTop(deltas) ==
  IF Len(deltas) > 1 THEN FindDrop(deltas, 1) ELSE 0

\* Index of drop_position in the list, 0 when found_drop stays false.
DropPosition(deltas) ==
  IF Len(deltas) > 1 /\ deltas[1].count > 0 THEN FindDrop(deltas, 1) ELSE 0

\* Mutant of CurrentSuspects: the entry at the drop position is taken too.
CurrentSuspectsThroughDrop(deltas) ==
  LET d == DropPosition(deltas)
  IN IF d = 0 THEN {} ELSE {deltas[i].value : i \in 1 .. d}

\* All values before the drop position.
CurrentSuspects(deltas) ==
  LET d == DropPosition(deltas)
  IN IF d = 0 THEN {} ELSE {deltas[i].value : i \in 1 .. d - 1}

\* --------------------------------------------- AnalyzeDeltas, the histogram
\* Mutant of EraseUnsuspected: the erase loop is missing.
EraseNone(hist, suspects) == hist

\* Mutant of EraseUnsuspected: after an erase the iterator is advanced once
\* more, so the key that follows an erased key is not examined.
RECURSIVE EraseSkipLoop(_, _, _)
EraseSkipLoop(hist, todo, suspects) ==
  IF todo = {} THEN hist
  ELSE LET v == MinOf(todo)
           rest == todo \ {v}
       IN IF v \in suspects THEN EraseSkipLoop(hist, rest, suspects)
          ELSE EraseSkipLoop([c \in DOMAIN hist \ {v} |-> hist[c]],
                             IF rest = {} THEN {} ELSE rest \ {MinOf(rest)},
                             suspects)

EraseUnsuspectedSkipNext(hist, suspects) ==
  EraseSkipLoop(hist, DOMAIN hist, suspects)

\* The erase loop: every key that is no current suspect is removed.
EraseUnsuspected(hist, suspects) ==
  [c \in DOMAIN hist \cap suspects |-> hist[c]]

\* Mutant of Reinforce: a new entry is created with the map's default
\* score, 0, instead of kSuspicionScoreIncrease.
RECURSIVE ReinforceFromZeroLoop(_, _, _)
ReinforceFromZeroLoop(hist, todo, rs) ==
  IF todo = {} THEN hist
  ELSE LET v == MinOf(todo)
           h2 == IF v \in DOMAIN hist
                   THEN [hist EXCEPT ![v] = @ + kSuspicionScoreIncrease]
                 ELSE IF Cardinality(DOMAIN hist) < rs
                   THEN [c \in DOMAIN hist \cup {v} |->
                           IF c = v THEN 0 ELSE hist[c]]
                 ELSE hist
       IN ReinforceFromZeroLoop(h2, todo \ {v}, rs)

ReinforceFromZero(hist, suspects, rs) ==
  ReinforceFromZeroLoop(hist, suspects, rs)

RECURSIVE ReinforceLoop(_, _, _)
ReinforceLoop(hist, todo, rs) ==
  IF todo = {} THEN hist
  ELSE LET v == MinOf(todo)
           h2 == IF v \in DOMAIN hist
                   THEN [hist EXCEPT ![v] = @ + kSuspicionScoreIncrease]
                 ELSE IF Cardinality(DOMAIN hist) < rs
                   THEN [c \in DOMAIN hist \cup {v} |->
                           IF c = v THEN kSuspicionScoreIncrease ELSE hist[c]]
                 ELSE hist
       IN ReinforceLoop(h2, todo \ {v}, rs)

\* Mutant of Reinforce: the loop over the current suspects runs twice.
ReinforceTwice(hist, suspects, rs) ==
  ReinforceLoop(ReinforceLoop(hist, suspects, rs), suspects, rs)

Reinforce(hist, suspects, rs) == ReinforceLoop(hist, suspects, rs)

UpdatedHistogram(hist, suspects, rs) ==
  Reinforce(EraseUnsuspected(hist, suspects), suspects, rs)

\* --------------------------------------- AnalyzeDeltas, the suspected leaks
MaxOf(S) == CHOOSE x \in S : \A y \in S : y <= x

\* Mutant of ConfirmLoop: the histogram is walked from its largest key down.
RECURSIVE ConfirmLoopDescending(_, _, _, _, _)
ConfirmLoopDescending(leaks, hist, todo, rs, th) ==
  IF todo = {} \/ Len(leaks) > rs THEN leaks
  ELSE LET v == MaxOf(todo)
       IN ConfirmLoopDescending(
            IF hist[v] >= th THEN Append(leaks, v) ELSE leaks,
            hist, todo \ {v}, rs, th)

\* The loop over suspected_histogram_ in key order: a value whose score has
\* reached the threshold is appended; the loop ends once the list holds
\* more than ranking_size_ values.
RECURSIVE ConfirmLoop(_, _, _, _, _)
ConfirmLoop(leaks, hist, todo, rs, th) ==
  IF todo = {} \/ Len(leaks) > rs THEN leaks
  ELSE LET v == MinOf(todo)
       IN ConfirmLoop(IF hist[v] >= th THEN Append(leaks, v) ELSE leaks,
                      hist, todo \ {v}, rs, th)

\* Mutant of SuspectedLeaks: the list of the previous call is not cleared.
SuspectedLeaksKeepOld(old_leaks, hist, rs, th) ==
  ConfirmLoop(old_leaks, hist, DOMAIN hist, rs, th)

\* suspected_leaks_.clear(), then the loop over the histogram.
SuspectedLeaks(old_leaks, hist, rs, th) ==
  ConfirmLoop(<<>>, hist, DOMAIN hist, rs, th)

\* ------------------------------------------------------------ AddSample
\* Mutant of RotateEntries: the new list is stored before the old one is
\* saved, so both members hold the new list.
RotateEntriesLate(ranked_list, entries) ==
  [prev |-> ranked_list, current |-> ranked_list]

\* prev_ranked_entries_ = ranked_entries_; ranked_entries_ = ranked_list.
RotateEntries(ranked_list, entries) ==
  [prev |-> entries, current |-> ranked_list]

\* ------------------------------------------------------------------- Dump
\* An element access, begin() or [0], is within the container.
AccessOk(seq, i) == i \in 1 .. Len(seq)

\* The ranked entries Dump prints: those before the first count of 0.
RECURSIVE PrintedEntries(_, _)
PrintedEntries(entries, i) ==
  IF i > Len(entries) \/ entries[i].count = 0 THEN i - 1
  ELSE PrintedEntries(entries, i + 1)

NothingDumped == [called |-> FALSE, top |-> 0, leaks |-> <<>>, fault |-> FALSE]

\* Mutant of DumpReport: the first entry and the first leak are read
\* without the tests for an empty container.
DumpReportUnguarded(entries, leaks) ==
  [called |-> TRUE,
   top |-> PrintedEntries(entries, 1),
   leaks |-> leaks,
   fault |-> ~(AccessOk(entries, 1) /\ AccessOk(leaks, 1))]

\* What Dump writes into a buffer that is large enough: the number of top
\* entries and the suspected values it prints, and whether it read the
\* first element of an empty container on the way.
DumpReport(entries, leaks) ==
  [called |-> TRUE,
   top |-> IF Len(entries) > 0 THEN PrintedEntries(entries, 1) ELSE 0,
   leaks |-> IF leaks # <<>> THEN leaks ELSE <<>>,
   fault |-> \/ Len(entries) > 0 /\ ~AccessOk(entries, 1)
             \/ leaks # <<>> /\ ~AccessOk(leaks, 1)]

\* ------------------------------------------------------------------ state
Init ==
  /\ ranking_size_ \in 1 .. MaxRankingSize
  /\ score_threshold_ \in 1 .. MaxThreshold
  /\ ranked_entries_ = <<>>
  /\ prev_ranked_entries_ = <<>>
  /\ suspected_histogram_ = EmptyHistogram
  /\ suspected_leaks_ = <<>>
  /\ ranked_deltas = <<>>
  /\ current_suspects = {}
  /\ histogram_before = EmptyHistogram
  /\ streak = [c \in Classes |-> 0]
  /\ num_samples = 0
  /\ last_sample = <<>>
  /\ dumped = NothingDumped

\* Mutant of AddSample: ranking_size_ is not applied; the delta list and the
\* histogram take whatever the submitted list holds.
AddSampleUnbounded(ranked_list) ==
  /\ num_samples < MaxSamples
  /\ \E rot \in {RotateEntries(ranked_list, ranked_entries_)} :
     \E deltas \in {ComputeDeltas(ranked_list, rot.prev, Len(ranked_list))} :
     \E suspects \in {CurrentSuspects(deltas)} :
     \E hist \in {UpdatedHistogram(suspected_histogram_, suspects,
                                   Len(ranked_list))} :
        /\ prev_ranked_entries_' = rot.prev
        /\ ranked_entries_' = rot.current
        /\ ranked_deltas' = deltas
        /\ current_suspects' = suspects
        /\ histogram_before' = suspected_histogram_
        /\ suspected_histogram_' = hist
        /\ suspected_leaks_' =
             SuspectedLeaks(suspected_leaks_, hist, Len(ranked_list),
                            score_threshold_)
        /\ streak' = [c \in Classes |->
                        IF c \in suspects THEN streak[c] + 1 ELSE 0]
        /\ num_samples' = num_samples + 1
        /\ last_sample' = ranked_list
        /\ UNCHANGED <<ranking_size_, score_threshold_, dumped>>

\* AddSample: rotate the stored lists, rank the deltas of the values that
\* were in the previous list, and analyze them (AnalyzeDeltas).
AddSample(ranked_list) ==
  /\ num_samples < MaxSamples
  /\ \E rot \in {RotateEntries(ranked_list, ranked_entries_)} :
     \E deltas \in {ComputeDeltas(ranked_list, rot.prev, ranking_size_)} :
     \E suspects \in {CurrentSuspects(deltas)} :
     \E hist \in {UpdatedHistogram(suspected_histogram_, suspects,
                                   ranking_size_)} :
        /\ prev_ranked_entries_' = rot.prev
        /\ ranked_entries_' = rot.current
        /\ ranked_deltas' = deltas
        /\ current_suspects' = suspects
        /\ histogram_before' = suspected_histogram_
        /\ suspected_histogram_' = hist
        /\ suspected_leaks_' =
             SuspectedLeaks(suspected_leaks_, hist, ranking_size_,
                            score_threshold_)
        /\ streak' = [c \in Classes |->
                        IF c \in suspects THEN streak[c] + 1 ELSE 0]
        /\ num_samples' = num_samples + 1
        /\ last_sample' = ranked_list
        /\ UNCHANGED <<ranking_size_, score_threshold_, dumped>>

\* Dump: const, it reads ranked_entries_, prev_ranked_entries_ and
\* suspected_leaks_ and changes none of them.
Dump ==
  /\ dumped' = DumpReport(ranked_entries_, suspected_leaks_)
  /\ UNCHANGED <<ranking_size_, score_threshold_, ranked_entries_,
                 prev_ranked_entries_, suspected_histogram_, suspected_leaks_,
                 ranked_deltas, current_suspects, histogram_before, streak,
                 num_samples, last_sample>>

Next == \E ranked_list \in RankedLists : AddSample(ranked_list)

Spec == Init /\ [][Next]_vars

\* The analyzer with its report: AddSample calls and Dump calls in any
\* order.
NextQuery == (\E ranked_list \in RankedLists : AddSample(ranked_list)) \/ Dump

SpecQuery == Init /\ [][NextQuery]_vars

\* ------------------------------------------------- the end-to-end scenario
\* The three values A, B, C of the worked example are 1, 2, 3.
TraceList(a, b, c) ==
  <<[value |-> 1, count |-> a], [value |-> 2, count |-> b],
    [value |-> 3, count |-> c]>>

\* The lists of the example and the lists that mix their counts.
TraceLists ==
  {TraceList(a, b, c) : a \in {100, 200}, b \in {90, 95}, c \in {10, 11}}

InitTrace ==
  /\ ranking_size_ = 5
  /\ score_threshold_ = 2
  /\ ranked_entries_ = <<>>
  /\ prev_ranked_entries_ = <<>>
  /\ suspected_histogram_ = EmptyHistogram
  /\ suspected_leaks_ = <<>>
  /\ ranked_deltas = <<>>
  /\ current_suspects = {}
  /\ histogram_before = EmptyHistogram
  /\ streak = [c \in Classes |-> 0]
  /\ num_samples = 0
  /\ last_sample = <<>>
  /\ dumped = NothingDumped

NextTrace == \E ranked_list \in TraceLists : AddSample(ranked_list)

SpecTrace == InitTrace /\ [][NextTrace]_vars

\* ------------------------------------------------------------ vocabulary
ValuesOf(list) == {list[i].value : i \in 1 .. Len(list)}

\* The count a list holds for a value it contains.
CountIn(list, v) == list[CHOOSE i \in 1 .. Len(list) : list[i].value = v].count

HistogramKeys == DOMAIN suspected_histogram_

MinNat(a, b) == IF a <= b THEN a ELSE b

\* ------------------------------------------------------------------ C1
\* C1: after any sequence of AddSample calls, with lists of any length
\* (longer than ranking_size_ included), suspected_histogram_ holds at most
\* ranking_size_ entries.
C1_HistogramBounded == Cardinality(HistogramKeys) <= ranking_size_

\* A list longer than ranking_size_ was submitted and a value is tracked.
C1_Witness ==
  /\ Len(ranked_entries_) > ranking_size_
  /\ Len(prev_ranked_entries_) > ranking_size_
  /\ HistogramKeys # {}

\* ------------------------------------------------------------------ C2
\* C2: every value of suspected_leaks_ is a key of suspected_histogram_ and
\* its score is at least score_threshold_.
C2_LeaksAreScored ==
  \A i \in 1 .. Len(suspected_leaks_) :
     /\ suspected_leaks_[i] \in HistogramKeys
     /\ suspected_histogram_[suspected_leaks_[i]] >= score_threshold_

\* A value is reported under a threshold that takes two cycles to reach.
C2_Witness ==
  /\ score_threshold_ >= 2
  /\ Len(suspected_leaks_) >= 1

\* ------------------------------------------------------------------ C3
\* C3: a value that was not suspected in the cycle before and has been in
\* the current suspects in each of the latest k >= 1 cycles is in
\* suspected_leaks_ if and only if k >= score_threshold_.
C3_ConfirmedExactlyAtThreshold ==
  \A c \in Classes :
     streak[c] >= 1 =>
       (c \in Range(suspected_leaks_) <=> streak[c] >= score_threshold_)

\* A value reaches the threshold of two in its second consecutive cycle,
\* while another one, in its first, is not reported yet.
C3_Witness ==
  /\ score_threshold_ = 2
  /\ \E c \in Classes : streak[c] = 2 /\ c \in Range(suspected_leaks_)
  /\ \E c \in Classes : streak[c] = 1 /\ c \notin Range(suspected_leaks_)

\* ------------------------------------------------------------------ C4
\* C4: after AddSample, a value that was in suspected_histogram_ before the
\* call and is not in this cycle's current suspects is no key any more;
\* and no value outside the current suspects is a key, so a value absent
\* from two consecutive current-suspect sets is absent from the histogram.
C4_EraseOnMiss ==
  /\ \A c \in DOMAIN histogram_before :
        c \notin current_suspects => c \notin HistogramKeys
  /\ \A c \in Classes :
        c \notin current_suspects => c \notin HistogramKeys

\* A tracked value missed one cycle and lost its score, while another value
\* stays tracked.
C4_Witness ==
  /\ \E c \in DOMAIN histogram_before : c \notin current_suspects
  /\ HistogramKeys # {}

\* ------------------------------------------------------------------ C5
CommonValues == ValuesOf(ranked_entries_) \cap ValuesOf(prev_ranked_entries_)

\* Current count minus previous count of a value both lists hold.
DeltaOf(v) == CountIn(ranked_entries_, v) - CountIn(prev_ranked_entries_, v)

\* Current count minus previous count, 0 standing for a missing previous one.
DeltaOrCount(v) ==
  CountIn(ranked_entries_, v)
    - (IF v \in ValuesOf(prev_ranked_entries_)
         THEN CountIn(prev_ranked_entries_, v) ELSE 0)

\* C5 as stated: the differ yields one delta per entry of the submitted
\* list, up to ranking_size_ of them, each the current count minus the
\* previous count, a value absent from the previous list counting as 0
\* before; on the first call every delta is the value's count.
C5_Original ==
  num_samples >= 1 =>
    /\ Len(ranked_deltas) = MinNat(Len(ranked_entries_), ranking_size_)
    /\ \A i \in 1 .. Len(ranked_deltas) :
          /\ ranked_deltas[i].value \in ValuesOf(ranked_entries_)
          /\ ranked_deltas[i].count = DeltaOrCount(ranked_deltas[i].value)

\* C5 amended: the differ yields one delta for each entry of the submitted
\* list whose value is also in the previous list, up to ranking_size_ of
\* them (the largest, in descending order), each the current count minus
\* the previous count; a value absent from the previous list gets no delta,
\* and on the first call the delta list is empty.
C5_DeltasOfCommonValues ==
  /\ Len(ranked_deltas) = MinNat(Cardinality(CommonValues), ranking_size_)
  /\ \A i \in 1 .. Len(ranked_deltas) :
        /\ ranked_deltas[i].value \in CommonValues
        /\ ranked_deltas[i].count = DeltaOf(ranked_deltas[i].value)
  /\ DistinctValues(ranked_deltas)
  /\ IsRanked(ranked_deltas)
  /\ \A v \in CommonValues \ ValuesOf(ranked_deltas) :
        \A i \in 1 .. Len(ranked_deltas) : ranked_deltas[i].count >= DeltaOf(v)
  /\ num_samples <= 1 => ranked_deltas = <<>>

\* The submitted list holds a value with a positive count that the previous
\* list lacks, next to values of both lists that have deltas.
C5_Witness ==
  /\ \E v \in ValuesOf(ranked_entries_) \ ValuesOf(prev_ranked_entries_) :
        CountIn(ranked_entries_, v) > 0
  /\ Len(ranked_deltas) >= 2
  /\ \E i \in 1 .. Len(ranked_deltas) : ranked_deltas[i].count < 0

\* ------------------------------------------------------------------ C6
\* C6 as stated, with ranking_size_ = 5 and score_threshold_ = 2: the first
\* call, with {A:100, B:90, C:10}, leaves the scores {A:1, B:1} and no
\* suspected leak; the second, with {A:200, B:95, C:11}, leaves the scores
\* {A:2} and the suspected leaks [A].
C6_Original ==
  /\ (num_samples = 1 /\ ranked_entries_ = TraceList(100, 90, 10)) =>
        /\ suspected_histogram_ = [c \in {1, 2} |-> 1]
        /\ suspected_leaks_ = <<>>
  /\ (/\ num_samples = 2
      /\ prev_ranked_entries_ = TraceList(100, 90, 10)
      /\ ranked_entries_ = TraceList(200, 95, 11)) =>
        /\ suspected_histogram_ = [c \in {1} |-> 2]
        /\ suspected_leaks_ = <<1>>

\* C6 amended: the first call, with {A:100, B:90, C:10}, yields no delta
\* and leaves the scores and the suspected leaks empty; the second, with
\* {A:200, B:95, C:11}, yields the deltas {A:100, B:5, C:1}, suspects A
\* alone and leaves the scores {A:1} and no suspected leak.
C6_TraceFromFirstDeltas ==
  /\ (num_samples = 1 /\ ranked_entries_ = TraceList(100, 90, 10)) =>
        /\ ranked_deltas = <<>>
        /\ suspected_histogram_ = EmptyHistogram
        /\ suspected_leaks_ = <<>>
  /\ (/\ num_samples = 2
      /\ prev_ranked_entries_ = TraceList(100, 90, 10)
      /\ ranked_entries_ = TraceList(200, 95, 11)) =>
        /\ ranked_deltas = TraceList(100, 5, 1)
        /\ current_suspects = {1}
        /\ suspected_histogram_ = [c \in {1} |-> 1]
        /\ suspected_leaks_ = <<>>

\* Both calls of the example have been made.
C6_Witness ==
  /\ num_samples = 2
  /\ prev_ranked_entries_ = TraceList(100, 90, 10)
  /\ ranked_entries_ = TraceList(200, 95, 11)

\* ------------------------------------------------------------------ C7
\* The smallest index i with d[i] > 2 * d[i+1], 0 when there is none.
FirstCliff(d) ==
  LET I == {i \in 1 .. Len(d) - 1 : d[i].count > 2 * d[i + 1].count}
  IN IF I = {} THEN 0 ELSE MinOf(I)

\* The values up to the first cliff, none when there is no cliff.
CliffSuspects(d) ==
  IF FirstCliff(d) = 0 THEN {} ELSE {d[j].value : j \in 1 .. FirstCliff(d)}

C8_NoGrowthNoSuspect ==
  (Len(ranked_deltas) >= 1 /\ ranked_deltas[1].count <= 0) =>
     /\ current_suspects = {}
     /\ suspected_histogram_ = EmptyHistogram
     /\ suspected_leaks_ = <<>>

\* The first delta is 0 or less, a cliff follows, and the call found a
\* tracked value that it erased.
C8_Witness ==
  /\ Len(ranked_deltas) >= 2
  /\ ranked_deltas[1].count <= 0
  /\ FirstCliff(ranked_deltas) # 0
  /\ histogram_before # EmptyHistogram

\* ------------------------------------------------------------------ C9
\* C9: when AddSample is called twice in a row with the same list, the
\* second call yields deltas that are all 0 and no current suspect, and
\* leaves the histogram and the suspected leaks empty, whatever they held.
C9_SameListTwice ==
  (num_samples >= 2 /\ ranked_entries_ = prev_ranked_entries_) =>
     /\ Len(ranked_deltas) = MinNat(Len(ranked_entries_), ranking_size_)
     /\ \A i \in 1 .. Len(ranked_deltas) : ranked_deltas[i].count = 0
     /\ current_suspects = {}
     /\ suspected_histogram_ = EmptyHistogram
     /\ suspected_leaks_ = <<>>

\* The same list, of two entries or more, was submitted twice in a row
\* while a value was tracked.
C9_Witness ==
  /\ num_samples >= 2
  /\ ranked_entries_ = prev_ranked_entries_
  /\ Len(ranked_entries_) >= 2
  /\ histogram_before # EmptyHistogram

\* ----------------------------------------------------------------- C10
\* The values before the first major drop of the full delta ranking, the
\* one that is not cut at ranking_size_, that were not tracked yet.
NewlyGrowing ==
  CurrentSuspects(ComputeDeltas(ranked_entries_, prev_ranked_entries_,
                                Len(ranked_entries_)))
    \ DOMAIN histogram_before

\* The tracked values that this cycle suspects again.
KeptKeys == DOMAIN histogram_before \cap current_suspects

RECURSIVE SomeCallsLeave(_, _, _, _, _, _)
SomeCallsLeave(n, entries, hist, calls, rs, th) ==
  /\ calls > 0
  /\ \E list \in RankedLists :
     \E h \in {UpdatedHistogram(
                 hist,
                 CurrentSuspects(
                   ComputeDeltas(list, RotateEntries(list, entries).prev, rs)),
                 rs)} :
        \/ Len(SuspectedLeaks(<<>>, h, rs, th)) = n
        \/ SomeCallsLeave(n, list, h, calls - 1, rs, th)

\* C11 as stated: some sequence of AddSample calls on a fresh analyzer
\* reaches a state in which suspected_leaks_ holds exactly
\* ranking_size_ + 1 values, and no state holds more.
C11_Original ==
  /\ Len(suspected_leaks_) <= ranking_size_ + 1
  /\ SomeCallsLeave(ranking_size_ + 1, <<>>, EmptyHistogram, MaxSamples,
                    ranking_size_, score_threshold_)

\* C11 amended: suspected_leaks_ holds at most ranking_size_ - 1 values,
\* as the histogram it is rebuilt from does, so the size test of the
\* rebuild loop never stops it; some sequence of AddSample calls reaches
\* exactly ranking_size_ - 1 values, and none reaches more.
C11_LeaksBelowRankingSize ==
  /\ Len(suspected_leaks_) <= ranking_size_ - 1
  /\ Cardinality(HistogramKeys) <= ranking_size_ - 1

\* An analyzer of ranking size 3 reports two values, ranking_size_ - 1.
C11_Witness ==
  /\ ranking_size_ = 3
  /\ Len(suspected_leaks_) = ranking_size_ - 1

\* ----------------------------------------------------------------- C12
\* C12: both stored lists are empty before the first AddSample, and every
\* AddSample(s) leaves ranked_entries_ equal to s and prev_ranked_entries_
\* equal to the ranked_entries_ of before the call, whatever the analysis
\* of the deltas did in between.
C12_SnapshotRotation ==
  /\ ranked_entries_ = <<>> /\ prev_ranked_entries_ = <<>>
  /\ [][/\ ranked_entries_' = last_sample'
        /\ prev_ranked_entries_' = ranked_entries_]_vars

\* A second or later call has stored a list different from the one it
\* moved to prev_ranked_entries_, and its analysis found suspects.
C12_Witness ==
  /\ num_samples >= 2
  /\ ranked_entries_ = last_sample
  /\ prev_ranked_entries_ # <<>>
  /\ prev_ranked_entries_ # ranked_entries_
  /\ current_suspects # {}

\* ----------------------------------------------------------------- C13
\* C13: before the first AddSample the analyzer holds no suspected leak and
\* no histogram entry, a Dump made then prints no entry and no suspected
\* value, and no Dump reads an element of an empty container.
C13_FreshAnalyzerEmpty ==
  /\ num_samples = 0 =>
        /\ suspected_leaks_ = <<>>
        /\ suspected_histogram_ = EmptyHistogram
        /\ dumped.called => dumped.leaks = <<>> /\ dumped.top = 0
  /\ ~dumped.fault

\* Dump has been called on an analyzer that has had no sample.
C13_Witness ==
  /\ num_samples = 0
  /\ dumped.called
  /\ suspected_leaks_ = <<>>

\* ----------------------------------------------------------------- C14
\* The values of suspected_histogram_ whose score has reached the threshold.
Qualifying ==
  {c \in HistogramKeys : suspected_histogram_[c] >= score_threshold_}

\* C14: after AddSample, suspected_leaks_ lists every value whose score is
\* at least score_threshold_, each once, in ascending order, and nothing
\* else: no value of the previous list survives unless it qualifies again,
\* and the size test of the rebuild loop leaves no qualifying value out.
C14_LeaksAreTheQualifying ==
  /\ Range(suspected_leaks_) = Qualifying
  /\ Len(suspected_leaks_) = Cardinality(Qualifying)
  /\ \A i, j \in 1 .. Len(suspected_leaks_) :
        i < j => suspected_leaks_[i] < suspected_leaks_[j]

\* Two values are reported, and a value that qualified on entry to the
\* call is no longer reported.
C14_Witness ==
  /\ Len(suspected_leaks_) = 2
  /\ \E c \in DOMAIN histogram_before :
        /\ histogram_before[c] >= score_threshold_
        /\ c \notin Range(suspected_leaks_)

\* ----------------------------------------------------------------- C15
\* C15: after AddSample the keys of suspected_histogram_ are exactly the
\* current suspects of that call; the delta list holds at most
\* ranking_size_ entries and the suspects lie strictly before its drop, so
\* they are at most ranking_size_ - 1 and the insertion of a new suspect
\* never finds the histogram full.
C15_KeysAreCurrentSuspects ==
  /\ HistogramKeys = current_suspects
  /\ Len(ranked_deltas) <= ranking_size_
  /\ current_suspects # {} =>
        Cardinality(current_suspects) < Len(ranked_deltas)
  /\ Cardinality(current_suspects) <= ranking_size_ - 1

\* A call finds ranking_size_ - 1 = 2 suspects in a full delta list, one
\* of them new to the histogram, after a call that tracked another value
\* which is now erased.
C15_Witness ==
  /\ ranking_size_ = 3
  /\ Len(ranked_deltas) = 3
  /\ Cardinality(current_suspects) = 2
  /\ current_suspects \ DOMAIN histogram_before # {}
  /\ DOMAIN histogram_before \ current_suspects # {}

\* ----------------------------------------------------------------- C16
\* C16: after AddSample the score of every key of suspected_histogram_ is
\* the number of consecutive calls, ending with this one, whose current
\* suspects held the value; it is at least 1, and a value that was a key
\* on entry and is suspected again has its score raised by exactly 1.
C16_ScoreIsRunLength ==
  /\ \A c \in HistogramKeys :
        /\ suspected_histogram_[c] = streak[c]
        /\ suspected_histogram_[c] >= 1
  /\ \A c \in Classes \ HistogramKeys : streak[c] = 0
  /\ \A c \in KeptKeys :
        suspected_histogram_[c] - histogram_before[c] = kSuspicionScoreIncrease

\* One value is in its second consecutive cycle while another has just
\* entered with the score 1.
C16_Witness ==
  /\ \E c \in KeptKeys : suspected_histogram_[c] = 2 /\ streak[c] = 2
  /\ \E c \in HistogramKeys \ KeptKeys : suspected_histogram_[c] = 1

\* ----------------------------------------------------------------- C17
\* C17: after AddSample, every key of suspected_histogram_ and every value
\* of suspected_leaks_ is a value of the list just submitted and of the
\* list submitted before it; the first AddSample of an analyzer leaves the
\* histogram and the list of leaks empty.
C17_SuspectsInBothLists ==
  /\ HistogramKeys \subseteq ValuesOf(ranked_entries_)
  /\ HistogramKeys \subseteq ValuesOf(prev_ranked_entries_)
  /\ Range(suspected_leaks_) \subseteq
        ValuesOf(ranked_entries_) \cap ValuesOf(prev_ranked_entries_)
  /\ num_samples = 1 =>
        suspected_histogram_ = EmptyHistogram /\ suspected_leaks_ = <<>>

\* A value is reported while the submitted list holds a value, with the
\* largest count of the list, that the previous list lacked.
C17_Witness ==
  /\ suspected_leaks_ # <<>>
  /\ ranked_entries_ # <<>>
  /\ ranked_entries_[1].value \notin ValuesOf(prev_ranked_entries_)
  /\ ranked_entries_[1].count > 0

\* ----------------------------------------------------------------- C18
\* The delta list has two entries or more, a positive first delta and a
\* later delta of 0 or less.
GrowthAboveDecline ==
  /\ Len(ranked_deltas) >= 2
  /\ ranked_deltas[1].count > 0
  /\ \E i \in 2 .. Len(ranked_deltas) : ranked_deltas[i].count <= 0

\* C18: when the delta list has two entries or more, a positive first
\* delta and a later delta of 0 or less, a drop is found: some value is a
\* current suspect, and every current suspect has a positive delta and
\* stands before the first delta of 0 or less.
C18_DeclineIsADrop ==
  GrowthAboveDecline =>
    /\ FirstCliff(ranked_deltas) # 0
    /\ current_suspects # {}
    /\ \A i \in 1 .. Len(ranked_deltas) :
          ranked_deltas[i].value \in current_suspects =>
            /\ ranked_deltas[i].count > 0
            /\ \A j \in 1 .. i : ranked_deltas[j].count > 0
    /\ current_suspects \subseteq ValuesOf(ranked_deltas)

\* Two growing values stand above a negative delta, with no cliff between
\* the two: both are suspected.
C18_Witness ==
  /\ GrowthAboveDecline
  /\ Len(ranked_deltas) = 3
  /\ ranked_deltas[3].count < 0
  /\ Cardinality(current_suspects) = 2

====
